---------------------------- MODULE Spec2Model ----------------------------
(***************************************************************************)
(* Webhook -> amoCRM bridge: the field-mapping engine of mapping.js        *)
(* (getValueByPath, applyMapping, leadMapping, contactMapping) and the     *)
(* two server files that call it (the detailed server, unnamed/part_000,   *)
(* and the older short server, unnamed/part_001).                          *)
(*                                                                         *)
(* JavaScript values are encoded uniformly as records                      *)
(*   [t |-> type tag, s |-> characters, n |-> integer, e |-> members]      *)
(* so that values of different JavaScript types can live in one set.       *)
(* A string is the sequence of its characters; an object is the sequence   *)
(* of its <<key, value>> members in insertion order; an array is the       *)
(* sequence of <<"", element>>.  A key that is absent from an object reads *)
(* as undefined, exactly as in JavaScript.                                 *)
(*                                                                         *)
(* The Russian string literals of the source are written with their ASCII  *)
(* renderings ("Lead from AI manager", "Contact ", " min ", " sec"), one   *)
(* character per element.                                                  *)
(***************************************************************************)
EXTENDS Integers, Sequences, FiniteSets, TLC

(***************************************************************************)
(* JavaScript values                                                       *)
(***************************************************************************)
Undef == [t |-> "undefined", s |-> <<>>, n |-> 0, e |-> <<>>]
Null == [t |-> "null", s |-> <<>>, n |-> 0, e |-> <<>>]
NaN == [t |-> "NaN", s |-> <<>>, n |-> 0, e |-> <<>>]
Num(k) == [t |-> "number", s |-> <<>>, n |-> k, e |-> <<>>]
Str(chars) == [t |-> "string", s |-> chars, n |-> 0, e |-> <<>>]
Obj(members) == [t |-> "object", s |-> <<>>, n |-> 0, e |-> members]
Arr(elems) == [t |-> "array", s |-> <<>>, n |-> 0,
               e |-> [i \in 1..Len(elems) |-> <<"", elems[i]>>]]
True == [t |-> "boolean", s |-> <<>>, n |-> 1, e |-> <<>>]
False == [t |-> "boolean", s |-> <<>>, n |-> 0, e |-> <<>>]

Rep(c, k) == [i \in 1..k |-> c]

\* value === null || value === undefined
IsNullish(v) == v.t \in {"null", "undefined"}

\* ToBoolean: undefined, null, NaN, 0, false and "" are falsy; objects and
\* arrays are truthy
Truthy(v) ==
    CASE v.t \in {"undefined", "null", "NaN"} -> FALSE
      [] v.t \in {"number", "boolean"} -> v.n # 0
      [] v.t = "string" -> Len(v.s) > 0
      [] OTHER -> TRUE

\* Indices of the members of object o stored under key
KeyIdx(o, key) == {i \in 1..Len(o.e) : o.e[i][1] = key}

HasKey(o, key) == o.t = "object" /\ KeyIdx(o, key) # {}

\* the position an index key ("0", "1", "2") names, counted from 1; 0 for
\* a key that is not one of these indices
IndexOf(key) ==
    CASE key = "0" -> 1
      [] key = "1" -> 2
      [] key = "2" -> 3
      [] OTHER -> 0

\* v[key] for a non-nullish v: an own member of an object; the built-in
\* length of a string or an array, and their elements under index keys;
\* undefined for anything else.
GetProp(v, key) ==
    CASE v.t = "object" ->
           IF KeyIdx(v, key) = {} THEN Undef
           ELSE v.e[CHOOSE i \in KeyIdx(v, key) : \A j \in KeyIdx(v, key) : j <= i][2]
      [] v.t = "string" ->
           IF key = "length" THEN Num(Len(v.s))
           ELSE IF IndexOf(key) \in 1..Len(v.s) THEN Str(<<v.s[IndexOf(key)]>>)
           ELSE Undef
      [] v.t = "array" ->
           IF key = "length" THEN Num(Len(v.e))
           ELSE IF IndexOf(key) \in 1..Len(v.e) THEN v.e[IndexOf(key)][2]
           ELSE Undef
      [] OTHER -> Undef

\* v?.key : undefined when v is null or undefined
OptGet(v, key) == IF IsNullish(v) THEN Undef ELSE GetProp(v, key)

\* a || b
OrElse(a, b) == IF Truthy(a) THEN a ELSE b

\* obj[key] = value on an object: replaces the member in place, or appends it
SetProp(o, key, value) ==
    IF KeyIdx(o, key) = {}
    THEN Obj(Append(o.e, <<key, value>>))
    ELSE Obj([i \in 1..Len(o.e) |-> IF o.e[i][1] = key THEN <<key, value>> ELSE o.e[i]])

Keys(o) == {o.e[i][1] : i \in 1..Len(o.e)}

(***************************************************************************)
(* Strings and numbers                                                     *)
(***************************************************************************)
DigitChars == <<"0", "1", "2", "3", "4", "5", "6", "7", "8", "9">>

IsDigit(c) == \E i \in 1..10 : DigitChars[i] = c

DigitVal(c) == (CHOOSE i \in 1..10 : DigitChars[i] = c) - 1

WhiteSpace == {" ", "\t", "\n"}

RECURSIVE NatToChars(_)
\* decimal digits of a natural number
NatToChars(k) ==
    IF k < 10 THEN <<DigitChars[k + 1]>>
    ELSE NatToChars(k \div 10) \o <<DigitChars[(k % 10) + 1]>>

IntToChars(k) == IF k < 0 THEN <<"-">> \o NatToChars(0 - k) ELSE NatToChars(k)

RECURSIVE JoinChars(_)
RECURSIVE ToChars(_)
\* String(v), as a template literal `${v}` computes it
ToChars(v) ==
    CASE v.t = "string" -> v.s
      [] v.t = "number" -> IntToChars(v.n)
      [] v.t = "NaN" -> <<"N", "a", "N">>
      [] v.t = "undefined" -> <<"u", "n", "d", "e", "f", "i", "n", "e", "d">>
      [] v.t = "null" -> <<"n", "u", "l", "l">>
      [] v.t = "boolean" -> IF v.n = 1 THEN <<"t", "r", "u", "e">>
                            ELSE <<"f", "a", "l", "s", "e">>
      [] v.t = "array" -> JoinChars(v.e)
      [] OTHER -> <<"[", "o", "b", "j", "e", "c", "t", " ", "O", "b", "j", "e", "c", "t", "]">>

\* Array.prototype.join(","): null and undefined elements join as ""
JoinChars(es) ==
    IF Len(es) = 0 THEN <<>>
    ELSE LET last == es[Len(es)][2]
             lastChars == IF IsNullish(last) THEN <<>> ELSE ToChars(last)
         IN IF Len(es) = 1 THEN lastChars
            ELSE JoinChars(SubSeq(es, 1, Len(es) - 1)) \o <<",">> \o lastChars

RECURSIVE DigitsValue(_)
\* the number written by a non-empty sequence of digit characters
DigitsValue(ds) ==
    IF Len(ds) = 1 THEN DigitVal(ds[1])
    ELSE 10 * DigitsValue(SubSeq(ds, 1, Len(ds) - 1)) + DigitVal(ds[Len(ds)])

RECURSIVE DropLeadingSpace(_)
DropLeadingSpace(cs) ==
    IF Len(cs) > 0 /\ cs[1] \in WhiteSpace THEN DropLeadingSpace(Tail(cs)) ELSE cs

RECURSIVE DropTrailingSpace(_)
DropTrailingSpace(cs) ==
    IF Len(cs) > 0 /\ cs[Len(cs)] \in WhiteSpace
    THEN DropTrailingSpace(SubSeq(cs, 1, Len(cs) - 1)) ELSE cs

\* String.prototype.trim
Trim(cs) == DropTrailingSpace(DropLeadingSpace(cs))

\* the longest prefix of cs made of digits
DigitPrefixLen(cs) ==
    CHOOSE k \in 0..Len(cs) :
        /\ \A i \in 1..k : IsDigit(cs[i])
        /\ (k < Len(cs) => ~IsDigit(cs[k + 1]))

\* the number written by the first k characters of body; NaN when k = 0
PrefixNumber(body, k) == IF k = 0 THEN NaN ELSE Num(DigitsValue(SubSeq(body, 1, k)))

ParseDigits(body) == PrefixNumber(body, DigitPrefixLen(body))

Negate(v) == IF v.t = "number" THEN Num(0 - v.n) ELSE v

ParseSigned(cs) ==
    IF Len(cs) > 0 /\ cs[1] = "-" THEN Negate(ParseDigits(Tail(cs)))
    ELSE IF Len(cs) > 0 /\ cs[1] = "+" THEN ParseDigits(Tail(cs))
    ELSE ParseDigits(cs)

\* parseInt(v): String(v), leading white space skipped, an optional sign,
\* then the longest run of digits; NaN when there is none.
ParseInt(v) == ParseSigned(DropLeadingSpace(ToChars(v)))

\* the number a trimmed string spells: "" is 0, digits are their value
SpelledNumber(cs) ==
    IF Len(cs) = 0 THEN Num(0)
    ELSE IF \A i \in 1..Len(cs) : IsDigit(cs[i]) THEN Num(DigitsValue(cs))
    ELSE NaN

\* ToNumber for the values the mappings meet: a number is itself, null is 0,
\* a string is the number it spells after trimming, anything else NaN
ToNumber(v) ==
    CASE v.t = "number" -> v
      [] v.t = "null" -> Num(0)
      [] v.t = "string" -> SpelledNumber(Trim(v.s))
      [] OTHER -> NaN

NumGreater(a, k) == a.t = "number" /\ a.n > k

\* a > k for an integer k: false whenever a does not convert to a number
JsGreater(a, k) == NumGreater(ToNumber(a), k)

\* str.replace(/\D/g, ''): the digits of the string, in order
RECURSIVE OnlyDigits(_)
OnlyDigits(cs) ==
    IF Len(cs) = 0 THEN <<>>
    ELSE IF IsDigit(cs[1]) THEN <<cs[1]>> \o OnlyDigits(Tail(cs))
    ELSE OnlyDigits(Tail(cs))

(***************************************************************************)
(* mapping.js: getValueByPath                                              *)
(***************************************************************************)
\* A path is written as the sequence of its tokens, "." being a token of its
\* own: 'call.agreements.price' is <<"call", ".", "agreements", ".", "price">>,
\* '' is <<>>, 'static' is <<"static">>.
RECURSIVE SplitDots(_)
\* path.split('.'): the segments between the dots, empty ones included
SplitDots(p) ==
    IF Len(p) = 0 THEN <<"">>
    ELSE IF p[1] = "." THEN <<"">> \o SplitDots(Tail(p))
    ELSE IF Len(p) = 1 THEN <<p[1]>>
    ELSE <<p[1]>> \o SplitDots(SubSeq(p, 3, Len(p)))

\* one step of the reduce:
\*   current && current[key] !== undefined ? current[key] : null
PathStep(current, key) ==
    IF Truthy(current) /\ GetProp(current, key).t # "undefined"
    THEN GetProp(current, key)
    ELSE Null

RECURSIVE PathReduce(_, _)
PathReduce(current, segs) ==
    IF Len(segs) = 0 THEN current
    ELSE PathReduce(PathStep(current, segs[1]), Tail(segs))

getValueByPath(obj, path) ==
    IF Len(path) = 0 \/ path = <<"static">> \/ path = <<"multiple">>
    THEN Null
    ELSE PathReduce(obj, SplitDots(path))

(***************************************************************************)
(* mapping.js: the transforms of leadMapping and contactMapping            *)
(***************************************************************************)
\* A transform either returns a value or throws (a TypeError).
Ok(v) == [ok |-> TRUE, v |-> v]
Thrown == [ok |-> FALSE, v |-> Undef]

NameLimit == 250
NameKeep == 247
MsPerMinute == 60000
MsPerSecond == 1000

Ellipsis == <<".", ".", ".">>
LeadPrefix == <<"L", "e", "a", "d", " ", "f", "r", "o", "m", " ", "A", "I", " ",
                "m", "a", "n", "a", "g", "e", "r">>
ContactPrefix == <<"C", "o", "n", "t", "a", "c", "t", " ">>
UnnamedContact == <<"U", "n", "n", "a", "m", "e", "d", " ", "c", "o", "n", "t", "a", "c", "t">>

\* a variant that cuts at the limit itself before adding the dots
TruncateAtLimit(value) ==
    IF value.t = "string"
    THEN Ok(Str(SubSeq(value.s, 1, NameLimit) \o Ellipsis))
    ELSE Thrown

\* value.substring(0, 247) + '...' ; substring exists on strings only
Truncate(value) ==
    IF value.t = "string"
    THEN Ok(Str(SubSeq(value.s, 1, NameKeep) \o Ellipsis))
    ELSE Thrown

\* the fallbacks of the lead name: client name, then phone, then the literal
LeadNameFallback(clientName, phone) ==
    IF Truthy(clientName)
    THEN Ok(Str(LeadPrefix \o <<":", " ">> \o ToChars(clientName)))
    ELSE IF Truthy(phone)
    THEN Ok(Str(LeadPrefix \o <<":", " ">> \o ToChars(phone)))
    ELSE Ok(Str(LeadPrefix))

\* leadMapping.name.transform; data.call throws when data is null
leadNameTransform(value, data) ==
    IF Truthy(value)
    THEN IF JsGreater(GetProp(value, "length"), NameLimit)
         THEN Truncate(value)
         ELSE Ok(value)
    ELSE IF IsNullish(data) THEN Thrown
    ELSE LeadNameFallback(OptGet(OptGet(GetProp(data, "call"), "agreements"), "client_name"),
                          OptGet(GetProp(data, "contact"), "phone"))

\* a variant that turns a price that is not a number into zero
ZeroIfNaN(numValue) == IF numValue.t = "NaN" THEN Num(0) ELSE numValue

\* isNaN(numValue) ? null : numValue
NullIfNaN(numValue) == IF numValue.t = "NaN" THEN Null ELSE numValue

\* leadMapping.price.transform
leadPriceTransform(value) ==
    IF ~Truthy(value) THEN Ok(Null) ELSE Ok(NullIfNaN(ParseInt(value)))

\* { field_id: parseInt(process.env.X), values: [{ value }] }
FieldIdEntry(envValue, value) ==
    Obj(<< <<"field_id", ParseInt(envValue)>>,
           <<"values", Arr(<<Obj(<< <<"value", value>> >>)>>)>> >>)

\* { field_code, values: [{ value, enum_code: 'WORK' }] }
FieldCodeEntry(code, value) ==
    Obj(<< <<"field_code", Str(<<code>>)>>,
           <<"values", Arr(<<Obj(<< <<"value", value>>,
                                    <<"enum_code", Str(<<"WORK">>)>> >>)>>)>> >>)

\* a variant that pushes whenever the source is present
PushIfUngated(list, envValue, source, value) ==
    IF Truthy(source)
    THEN Append(list, FieldIdEntry(envValue, value))
    ELSE list

\* if (process.env.X && source) customFields.push(entry)
PushIf(list, envValue, source, value) ==
    IF Truthy(envValue) /\ Truthy(source)
    THEN Append(list, FieldIdEntry(envValue, value))
    ELSE list

\* `${minutes} min ${seconds} sec`
MinSecText(minutes, seconds) ==
    Str(ToChars(minutes) \o <<" ", "m", "i", "n", " ">> \o ToChars(seconds)
        \o <<" ", "s", "e", "c">>)

\* minutes = Math.floor(d / 60000), seconds = Math.floor((d % 60000) / 1000)
\* for d >= 0; NaN propagates
DurationOf(d) ==
    IF d.t = "number"
    THEN MinSecText(Num(d.n \div MsPerMinute), Num((d.n % MsPerMinute) \div MsPerSecond))
    ELSE MinSecText(NaN, NaN)

\* the text of a duration in milliseconds; the division converts it to a number
DurationText(duration) == DurationOf(ToNumber(duration))

IsoEpochPrefix == <<"1", "9", "7", "0", "-", "0", "1", "-", "0", "1", "T", "0", "0", ":", "0", "0", ":">>

\* new Date(v).getTime(): a number is the epoch milliseconds itself; of the
\* strings, the timestamps 1970-01-01T00:00:SSZ are parsed and every other
\* string used here is not a date (NaN).
DateGetTime(v) ==
    CASE v.t = "number" -> v
      [] v.t = "string" ->
           IF /\ Len(v.s) = Len(IsoEpochPrefix) + 3
              /\ SubSeq(v.s, 1, Len(IsoEpochPrefix)) = IsoEpochPrefix
              /\ IsDigit(v.s[Len(v.s) - 2]) /\ IsDigit(v.s[Len(v.s) - 1])
              /\ v.s[Len(v.s)] = "Z"
              /\ DigitVal(v.s[Len(v.s) - 2]) < 6
           THEN Num((10 * DigitVal(v.s[Len(v.s) - 2]) + DigitVal(v.s[Len(v.s) - 1])) * MsPerSecond)
           ELSE NaN
      [] OTHER -> NaN

FloorSeconds(ms) == IF ms.t = "number" THEN Num(ms.n \div MsPerSecond) ELSE NaN

\* Math.floor(new Date(v).getTime() / 1000)
EpochSeconds(v) == FloorSeconds(DateGetTime(v))

\* a variant that returns the list even when it is empty
ListAlways(list) == Arr(list)

\* customFields.length > 0 ? customFields : null
ListOrNull(list) == IF Len(list) > 0 THEN Arr(list) ELSE Null

\* the ten pushes of leadMapping.custom_fields_values.transform, in order
LeadCustomFields(agreements, call, region, company, env) ==
    LET f1 == PushIf(<<>>, env["AMOCRM_AGREEMENTS_FIELD_ID"],
                     GetProp(agreements, "agreements"), GetProp(agreements, "agreements"))
        f2 == PushIf(f1, env["AMOCRM_CLIENT_FACTS_FIELD_ID"],
                     GetProp(agreements, "client_facts"), GetProp(agreements, "client_facts"))
        f3 == PushIf(f2, env["AMOCRM_SMS_TEXT_FIELD_ID"],
                     GetProp(agreements, "smsText"), GetProp(agreements, "smsText"))
        f4 == PushIf(f3, env["AMOCRM_CALL_DURATION_FIELD_ID"],
                     GetProp(call, "duration"), DurationText(GetProp(call, "duration")))
        f5 == PushIf(f4, env["AMOCRM_CALL_STARTED_FIELD_ID"],
                     GetProp(call, "startedAt"), EpochSeconds(GetProp(call, "startedAt")))
        f6 == PushIf(f5, env["AMOCRM_CALL_RECORD_URL_FIELD_ID"],
                     GetProp(call, "recordUrl"), GetProp(call, "recordUrl"))
        f7 == PushIf(f6, env["AMOCRM_CALL_HISTORY_FIELD_ID"],
                     GetProp(agreements, "historycall"), GetProp(agreements, "historycall"))
        f8 == PushIf(f7, env["AMOCRM_AGREEMENTS_TIME_FIELD_ID"],
                     GetProp(agreements, "agreements_time"), GetProp(agreements, "agreements_time"))
        f9 == PushIf(f8, env["AMOCRM_REGION_FIELD_ID"], region, region)
    IN PushIf(f9, env["AMOCRM_COMPANY_FIELD_ID"], company, company)

\* contact.dadataPhoneInfo?.region and contact.additionalFields?.company
LeadCustomOfContact(agreements, call, contact, env) ==
    LeadCustomFields(agreements, call,
                     OptGet(GetProp(contact, "dadataPhoneInfo"), "region"),
                     OptGet(GetProp(contact, "additionalFields"), "company"), env)

\* leadMapping.custom_fields_values.transform; env is process.env when it
\* runs; data.call throws when data is null
leadCustomFieldsTransform(data, env) ==
    IF IsNullish(data) THEN Thrown
    ELSE Ok(ListOrNull(LeadCustomOfContact(
                OrElse(OptGet(GetProp(data, "call"), "agreements"), Obj(<<>>)),
                OrElse(GetProp(data, "call"), Obj(<<>>)),
                OrElse(GetProp(data, "contact"), Obj(<<>>)), env)))

\* the fallbacks of the contact name: phone, then the literal
ContactNameFallback(phone) ==
    IF Truthy(phone) THEN Ok(Str(ContactPrefix \o ToChars(phone))) ELSE Ok(Str(UnnamedContact))

\* contactMapping.name.transform; trim exists on strings only
contactNameTransform(value, data) ==
    IF Truthy(value)
    THEN IF value.t = "string" THEN Ok(Str(Trim(value.s))) ELSE Thrown
    ELSE IF IsNullish(data) THEN Thrown
    ELSE ContactNameFallback(OptGet(GetProp(data, "contact"), "phone"))

\* phoneFormatted.startsWith('7') ? `+${phoneFormatted}` : `+7${phoneFormatted}`
PhoneValue(phoneFormatted) ==
    IF phoneFormatted[1] = "7"
    THEN Str(<<"+">> \o phoneFormatted)
    ELSE Str(<<"+", "7">> \o phoneFormatted)

\* if (phoneFormatted) customFields.push({ field_code: 'PHONE', ... })
PhoneEntries(phoneFormatted) ==
    IF Len(phoneFormatted) > 0
    THEN <<FieldCodeEntry("PHONE", PhoneValue(phoneFormatted))>>
    ELSE <<>>

\* if (contact.additionalFields?.email) customFields.push({ field_code: 'EMAIL', ... })
PushEmail(list, email) ==
    IF Truthy(email) THEN Append(list, FieldCodeEntry("EMAIL", email)) ELSE list

\* the pushes of contactMapping.custom_fields_values.transform, in order;
\* contact.phone.replace exists on strings only
ContactCustomFields(phone, email, company, city, env) ==
    IF Truthy(phone) /\ phone.t # "string" THEN Thrown
    ELSE Ok(ListOrNull(
            PushIf(PushIf(PushEmail(IF Truthy(phone) THEN PhoneEntries(OnlyDigits(phone.s))
                                    ELSE <<>>,
                                    email),
                          env["AMOCRM_CONTACT_COMPANY_FIELD_ID"], company, company),
                   env["AMOCRM_CONTACT_CITY_FIELD_ID"], city, city)))

ContactCustomOfContact(contact, env) ==
    ContactCustomFields(GetProp(contact, "phone"),
                        OptGet(GetProp(contact, "additionalFields"), "email"),
                        OptGet(GetProp(contact, "additionalFields"), "company"),
                        OptGet(GetProp(contact, "additionalFields"), "city"), env)

\* contactMapping.custom_fields_values.transform; data.contact throws when
\* data is null
contactCustomFieldsTransform(data, env) ==
    IF IsNullish(data) THEN Thrown
    ELSE ContactCustomOfContact(OrElse(GetProp(data, "contact"), Obj(<<>>)), env)

(***************************************************************************)
(* mapping.js: the two entity mappings and applyMapping                    *)
(***************************************************************************)
\* A field of a mapping: its amoCRM name, its source (a path, 'static' or
\* 'multiple'), the name of its transform ("" when it has none) and its
\* static value.
Field(name, source, transform, value) ==
    [field |-> name, source |-> source, transform |-> transform, value |-> value]

\* the names process.env is read under
EnvNames ==
    {"AMOCRM_PIPELINE_ID", "AMOCRM_STATUS_ID",
     "AMOCRM_AGREEMENTS_FIELD_ID", "AMOCRM_CLIENT_FACTS_FIELD_ID",
     "AMOCRM_SMS_TEXT_FIELD_ID", "AMOCRM_CALL_DURATION_FIELD_ID",
     "AMOCRM_CALL_STARTED_FIELD_ID", "AMOCRM_CALL_RECORD_URL_FIELD_ID",
     "AMOCRM_CALL_HISTORY_FIELD_ID", "AMOCRM_AGREEMENTS_TIME_FIELD_ID",
     "AMOCRM_REGION_FIELD_ID", "AMOCRM_COMPANY_FIELD_ID",
     "AMOCRM_CONTACT_COMPANY_FIELD_ID", "AMOCRM_CONTACT_CITY_FIELD_ID",
     "AMOCRM_SUBDOMAIN", "AMOCRM_ACCESS_TOKEN", "WEBHOOK_SECRET"}

LeadFieldIdNames ==
    {"AMOCRM_AGREEMENTS_FIELD_ID", "AMOCRM_CLIENT_FACTS_FIELD_ID",
     "AMOCRM_SMS_TEXT_FIELD_ID", "AMOCRM_CALL_DURATION_FIELD_ID",
     "AMOCRM_CALL_STARTED_FIELD_ID", "AMOCRM_CALL_RECORD_URL_FIELD_ID",
     "AMOCRM_CALL_HISTORY_FIELD_ID", "AMOCRM_AGREEMENTS_TIME_FIELD_ID",
     "AMOCRM_REGION_FIELD_ID", "AMOCRM_COMPANY_FIELD_ID"}

ContactFieldIdNames == {"AMOCRM_CONTACT_COMPANY_FIELD_ID", "AMOCRM_CONTACT_CITY_FIELD_ID"}

\* a variant whose pipeline_id falls back to a default identifier
leadMappingDefaultPipeline(loadEnv) ==
    << Field("name", <<"call", ".", "agreements", ".", "agreements">>, "leadName", Undef),
       Field("pipeline_id", <<"static">>, "", OrElse(loadEnv["AMOCRM_PIPELINE_ID"], Str(<<"0">>))),
       Field("status_id", <<"static">>, "", OrElse(loadEnv["AMOCRM_STATUS_ID"], Null)),
       Field("price", <<"call", ".", "agreements", ".", "price">>, "leadPrice", Undef),
       Field("custom_fields_values", <<"multiple">>, "leadCustom", Undef) >>

\* leadMapping, built when mapping.js is loaded: the two static values are
\* process.env.X || null as process.env stands at that moment (loadEnv)
leadMapping(loadEnv) ==
    << Field("name", <<"call", ".", "agreements", ".", "agreements">>, "leadName", Undef),
       Field("pipeline_id", <<"static">>, "", OrElse(loadEnv["AMOCRM_PIPELINE_ID"], Null)),
       Field("status_id", <<"static">>, "", OrElse(loadEnv["AMOCRM_STATUS_ID"], Null)),
       Field("price", <<"call", ".", "agreements", ".", "price">>, "leadPrice", Undef),
       Field("custom_fields_values", <<"multiple">>, "leadCustom", Undef) >>

contactMapping ==
    << Field("name", <<"call", ".", "agreements", ".", "client_name">>, "contactName", Undef),
       Field("custom_fields_values", <<"multiple">>, "contactCustom", Undef) >>

\* config.transform(value, data); the custom-field transforms read process.env
CallTransform(id, value, data, env) ==
    CASE id = "leadName" -> leadNameTransform(value, data)
      [] id = "leadPrice" -> leadPriceTransform(value)
      [] id = "leadCustom" -> leadCustomFieldsTransform(data, env)
      [] id = "contactName" -> contactNameTransform(value, data)
      [] id = "contactCustom" -> contactCustomFieldsTransform(data, env)

\* the body of the try block up to the value of the field
FieldValue(config, data, env) ==
    IF config.source = <<"static">> THEN Ok(config.value)
    ELSE IF config.source = <<"multiple">>
    THEN IF config.transform # "" THEN CallTransform(config.transform, Null, data, env)
         ELSE Ok(Null)
    ELSE IF config.transform # ""
    THEN CallTransform(config.transform, getValueByPath(data, config.source), data, env)
    ELSE Ok(getValueByPath(data, config.source))

\* a variant that tests only value !== undefined
StoreValueKeepNull(result, field, r) ==
    IF r.ok /\ r.v.t # "undefined" THEN SetProp(result, field, r.v) ELSE result

\* if (value !== null && value !== undefined) result[field] = value; a
\* computation that threw stores nothing
StoreValue(result, field, r) ==
    IF r.ok /\ ~IsNullish(r.v) THEN SetProp(result, field, r.v) ELSE result

\* one iteration of the loop: try { value = ...; store } catch { warn }
ApplyField(result, config, data, env) ==
    StoreValue(result, config.field, FieldValue(config, data, env))

RECURSIVE ApplyFields(_, _, _, _)
ApplyFields(result, mapping, data, env) ==
    IF Len(mapping) = 0 THEN result
    ELSE ApplyFields(ApplyField(result, mapping[1], data, env), Tail(mapping), data, env)

RECURSIVE ApplyFieldsAbort(_, _, _, _)
\* a variant whose try block encloses the whole loop: the first field that
\* throws ends the mapping
ApplyFieldsAbort(result, mapping, data, env) ==
    IF Len(mapping) = 0 THEN result
    ELSE IF ~FieldValue(mapping[1], data, env).ok THEN result
    ELSE ApplyFieldsAbort(ApplyField(result, mapping[1], data, env), Tail(mapping), data, env)

applyMappingAbort(data, mapping, env) == ApplyFieldsAbort(Obj(<<>>), mapping, data, env)

\* applyMapping(webhookData, mapping); env is process.env during the call
applyMapping(data, mapping, env) == ApplyFields(Obj(<<>>), mapping, data, env)

\* the fields whose computation threw (each is logged by console.warn)
WarnedFields(data, mapping, env) ==
    {mapping[i].field : i \in {j \in 1..Len(mapping) : ~FieldValue(mapping[j], data, env).ok}}

(***************************************************************************)
(* Inputs: webhook payloads and configurations                             *)
(***************************************************************************)
ShortLen == 2
ExtraLen == 50

\* a text of k characters whose i-th character depends on i
Text(k) == [i \in 1..k |-> DigitChars[(i % 10) + 1]]

\* a member of an object literal; a key whose value is undefined is left out
Member(key, v) == IF v.t = "undefined" THEN <<>> ELSE << <<key, v>> >>

AgreementsValues ==
    {Undef, Str(<<>>), Str(Text(ShortLen)), Str(Text(NameLimit)), Str(Text(NameLimit + 1)),
     Str(Text(NameLimit + ExtraLen)), Num(5), Arr(Rep(Str(<<"a">>), NameLimit + 1))}

ClientNameValues ==
    {Undef, Str(<<>>), Str(<<" ", "B", "o", "b", " ">>), Str(<<" ", " ">>), Num(7)}

PhoneValues ==
    {Undef,
     Str(<<"8", "9", "9", "9", "0", "0", "0", "1", "2", "3", "4">>),
     Str(<<"7", "9", "9", "9", "0", "0", "0", "1", "2", "3", "4">>),
     Str(<<"+", "7", " ", "(", "9", "9", "9", ")", " ", "0", "0", "0", "-", "1", "2", "-", "3", "4">>),
     Str(<<"n", "/", "a">>),
     Num(89990001)}

Profiles == {"none", "full", "odd"}

\* the other fields of the payload: all absent, all well-formed, or oddly typed
Rest(profile) ==
    CASE profile = "none" ->
           [email |-> Undef, company |-> Undef, city |-> Undef, region |-> Undef,
            facts |-> Undef, sms |-> Undef, history |-> Undef, time |-> Undef,
            duration |-> Undef, started |-> Undef, record |-> Undef, price |-> Undef]
      [] profile = "full" ->
           [email |-> Str(<<"a", "@", "b", ".", "c">>), company |-> Str(<<"A", "c", "m", "e">>),
            city |-> Str(<<"O", "m", "s", "k">>), region |-> Str(<<"R", "U">>),
            facts |-> Str(<<"v", "i", "p">>), sms |-> Str(<<"h", "i">>),
            history |-> Str(<<"l", "o", "g">>), time |-> Str(<<"1", "2", ":", "0", "0">>),
            duration |-> Num(125000),
            started |-> Str(IsoEpochPrefix \o <<"4", "2", "Z">>),
            record |-> Str(<<"u", "r", "l">>), price |-> Str(<<"1", "5", "0", "0">>)]
      [] profile = "odd" ->
           [email |-> Num(0), company |-> Num(3), city |-> Str(<<>>), region |-> Null,
            facts |-> Num(1), sms |-> Null, history |-> Str(<<>>), time |-> Num(0),
            duration |-> Str(<<"l", "o", "n", "g">>), started |-> Str(<<"s", "o", "o", "n">>),
            record |-> Null, price |-> Str(<<"1", "2", "r", "u", "b">>)]

\* { contact: { phone, additionalFields: {...}, dadataPhoneInfo: {...} },
\*   call: { agreements: {...}, duration, startedAt, recordUrl } }
Payload(ag, cn, ph, profile) ==
    LET r == Rest(profile)
    IN Obj(<< <<"contact",
                Obj(Member("phone", ph)
                    \o << <<"additionalFields",
                            Obj(Member("email", r.email) \o Member("company", r.company)
                                \o Member("city", r.city))>>,
                          <<"dadataPhoneInfo", Obj(Member("region", r.region))>> >>)>>,
              <<"call",
                Obj(<< <<"agreements",
                         Obj(Member("agreements", ag) \o Member("client_name", cn)
                             \o Member("price", r.price) \o Member("client_facts", r.facts)
                             \o Member("smsText", r.sms) \o Member("historycall", r.history)
                             \o Member("agreements_time", r.time))>> >>
                    \o Member("duration", r.duration) \o Member("startedAt", r.started)
                    \o Member("recordUrl", r.record))>> >>)

\* payloads whose branches are not the objects the mappings expect
MalformedPayloads ==
    {Obj(<< <<"contact", Str(<<"x">>)>>, <<"call", Num(1)>> >>),
     Obj(<< <<"contact", Obj(<<>>)>>, <<"call", Obj(<< <<"agreements", Str(<<"t", "e", "x", "t">>)>> >>)>> >>)}

\* the values of call.agreements.price beyond those of the profiles
PriceValues ==
    {Null, Num(0), Num(1500), True, Str(<<>>), Str(<<"0">>), Str(<<" ", "4", "2">>),
     Str(<<"-", "5">>), Str(<<"a", "b", "c">>), Str(<<"$", "9">>)}

\* the payload d with call.agreements.price set to p
WithPrice(d, p) ==
    SetProp(d, "call",
            SetProp(GetProp(d, "call"), "agreements",
                    SetProp(GetProp(GetProp(d, "call"), "agreements"), "price", p)))

PricePayloads ==
    {WithPrice(Payload(Str(Text(ShortLen)), Undef, Undef, "none"), p) : p \in PriceValues}

Payloads ==
    {Payload(ag, cn, ph, pr) : ag \in AgreementsValues, cn \in ClientNameValues,
                               ph \in PhoneValues, pr \in Profiles}
    \cup MalformedPayloads \cup PricePayloads

\* the identifiers of the ten lead custom fields, in the order of the pushes
LeadFieldOrder ==
    <<"AMOCRM_AGREEMENTS_FIELD_ID", "AMOCRM_CLIENT_FACTS_FIELD_ID",
      "AMOCRM_SMS_TEXT_FIELD_ID", "AMOCRM_CALL_DURATION_FIELD_ID",
      "AMOCRM_CALL_STARTED_FIELD_ID", "AMOCRM_CALL_RECORD_URL_FIELD_ID",
      "AMOCRM_CALL_HISTORY_FIELD_ID", "AMOCRM_AGREEMENTS_TIME_FIELD_ID",
      "AMOCRM_REGION_FIELD_ID", "AMOCRM_COMPANY_FIELD_ID">>

\* the value an identifier is configured with: 101 .. 109 and 100 for the
\* lead custom fields, in their order
IdText(name) ==
    CASE name = "AMOCRM_PIPELINE_ID" -> <<"7", "0", "1">>
      [] name = "AMOCRM_STATUS_ID" -> <<"7", "0", "2">>
      [] name \in LeadFieldIdNames ->
           <<"1", "0", DigitChars[((CHOOSE i \in 1..Len(LeadFieldOrder) :
                                        LeadFieldOrder[i] = name) % 10) + 1]>>
      [] name \in ContactFieldIdNames -> <<"2", "0", "1">>
      [] OTHER -> <<"s", "e", "t">>

\* process.env with exactly the names of S set, and those of E set to ''
EnvOf(S, E) ==
    [name \in EnvNames |->
        IF name \in E THEN Str(<<>>) ELSE IF name \in S THEN Str(IdText(name)) ELSE Undef]

FieldIdNames == LeadFieldIdNames \cup ContactFieldIdNames

MappingEnvs ==
    {EnvOf({}, {}),
     EnvOf({"AMOCRM_PIPELINE_ID", "AMOCRM_STATUS_ID"}, {}),
     EnvOf(FieldIdNames, {"AMOCRM_PIPELINE_ID"}),
     EnvOf({"AMOCRM_PIPELINE_ID", "AMOCRM_CLIENT_FACTS_FIELD_ID",
            "AMOCRM_CALL_DURATION_FIELD_ID", "AMOCRM_REGION_FIELD_ID",
            "AMOCRM_CONTACT_CITY_FIELD_ID"},
           {"AMOCRM_COMPANY_FIELD_ID"}),
     EnvOf(FieldIdNames \cup {"AMOCRM_PIPELINE_ID"}, {}),
     EnvOf(FieldIdNames \cup {"AMOCRM_PIPELINE_ID", "AMOCRM_STATUS_ID"}, {})}

\* a mapping of plain descriptors: paths without a transform, static values,
\* a 'multiple' source without a transform, the empty path
probeMapping ==
    << Field("phone", <<"contact", ".", "phone">>, "", Undef),
       Field("nothing", <<"contact", ".", "nothing", ".", "deeper">>, "", Undef),
       Field("fixed", <<"static">>, "", Num(1)),
       Field("unset", <<"static">>, "", Undef),
       Field("bundle", <<"multiple">>, "", Undef),
       Field("empty", <<>>, "", Undef),
       Field("contact_name", <<"call", ".", "agreements", ".", "client_name">>, "contactName", Undef) >>

(***************************************************************************)
(* State                                                                   *)
(***************************************************************************)
VARIABLES
    data,      \* the object handed to the mapping engine (the parsed payload)
    env,       \* process.env
    entity,    \* the function applied last ("" before any)
    out,       \* the value applyMapping or getValueByPath returned
    warned,    \* the fields applyMapping logged a warning for
    path,      \* the path handed to getValueByPath
    variant,   \* the server file that runs: "part_000" or "part_001"
    pc,        \* the position of the server process
    envFile,   \* the contents of the .env file
    loaded,    \* process.env as it stood when mapping.js was loaded
    route,     \* the route of the request being handled
    contactId, \* the handler's local contactId
    sent,      \* the requests issued to amoCRM for the current request
    res,       \* the response given to the current request
    contactError, \* the error of the contact step that the handler logged
    mapped,    \* the mappings applyMapping was called with for the current request
    signature, \* the X-Webhook-Signature header of the current request
    responses, \* how many responses the current request has been sent
    settled    \* for each request of sent that is no longer awaited: did it succeed

engineVars == <<data, env, entity, out, warned, path>>
serverVars == <<variant, pc, envFile, loaded, route, contactId, sent, res, contactError, mapped,
                signature, responses, settled>>
vars == <<data, env, entity, out, warned, path, variant, pc, envFile, loaded, route,
          contactId, sent, res, contactError, mapped, signature, responses, settled>>

\* no response yet
NoResponse ==
    [status |-> 0, success |-> FALSE, reason |-> "", leadId |-> Undef, contactId |-> Undef]

\* a process.env with nothing set
NoEnv == [name \in EnvNames |-> Undef]

\* the server process is not running
ServerOff ==
    /\ variant = "part_000"
    /\ pc = "off"
    /\ envFile = NoEnv
    /\ loaded = NoEnv
    /\ route = ""
    /\ contactId = Null
    /\ sent = <<>>
    /\ res = NoResponse
    /\ contactError = ""
    /\ mapped = <<>>
    /\ signature = "absent"
    /\ responses = 0
    /\ settled = <<>>

(***************************************************************************)
(* applyMapping as a function of its inputs                                *)
(***************************************************************************)
MappingInit ==
    /\ data \in Payloads
    /\ env \in MappingEnvs
    /\ entity = ""
    /\ out = Obj(<<>>)
    /\ warned = {}
    /\ path = <<>>
    /\ ServerOff

\* the call out = applyMapping(data, mapping) and the warnings it logs
Applied(m, mapping) ==
    /\ entity' = m
    /\ out' = applyMapping(data, mapping, env)
    /\ warned' = WarnedFields(data, mapping, env)
    /\ UNCHANGED <<data, env, path>>
    /\ UNCHANGED serverVars

ApplyContact ==
    /\ entity = ""
    /\ Applied("contact", contactMapping)

ApplyLead ==
    /\ entity = ""
    /\ Applied("lead", leadMapping(env))

ApplyProbe ==
    /\ entity = ""
    /\ Applied("probe", probeMapping)

MappingNext == ApplyContact \/ ApplyLead \/ ApplyProbe

SpecMapping == MappingInit /\ [][MappingNext]_vars

(***************************************************************************)
(* getValueByPath as a function of its inputs                              *)
(***************************************************************************)
\* the values found under the key a of the resolved object
PathLeaves ==
    {Null, Num(0), Num(5), Str(<<>>), Str(<<"x", "y">>), False, True,
     Obj(<<>>), Obj(<< <<"c", Num(1)>> >>), Obj(<< <<"c", Str(<<>>)>> >>),
     Obj(<< <<"c", Undef>> >>), Obj(<< <<"length", Num(9)>> >>)}

PathBranches ==
    PathLeaves
    \cup {Obj(<< <<"b", leaf>> >>) : leaf \in PathLeaves}
    \cup {Arr(<<>>), Arr(<< Obj(<< <<"b", Num(2)>> >>), Null >>),
          Obj(<< <<"", Obj(<< <<"b", Num(3)>> >>)>> >>)}

PathObjects ==
    {Null, Undef, Obj(<<>>), Obj(<< <<"b", Num(4)>> >>)}
    \cup {Obj(<< <<"a", branch>> >>) : branch \in PathBranches}

Paths ==
    {<<>>, <<"static">>, <<"multiple">>, <<"a">>, <<"b">>,
     <<"a", ".", "b">>, <<"a", ".", "b", ".", "c">>, <<"a", ".", "length">>,
     <<"a", ".", "b", ".", "length">>, <<"a", ".", "0">>, <<"a", ".", "0", ".", "b">>,
     <<"a", ".", ".", "b">>, <<"a", ".">>, <<".", "a">>}

PathInit ==
    /\ data \in PathObjects
    /\ path \in Paths
    /\ env = NoEnv
    /\ entity = ""
    /\ out = Undef
    /\ warned = {}
    /\ ServerOff

\* the call out = getValueByPath(data, path)
Resolve ==
    /\ entity = ""
    /\ entity' = "getValueByPath"
    /\ out' = getValueByPath(data, path)
    /\ UNCHANGED <<data, env, warned, path>>
    /\ UNCHANGED serverVars

PathNext == Resolve

SpecPath == PathInit /\ [][PathNext]_vars

(***************************************************************************)
(* Properties of applyMapping (checked under SpecMapping)                  *)
(***************************************************************************)
\* what the payload holds at the places the mappings read
PayloadAgreements == OptGet(OptGet(OptGet(data, "call"), "agreements"), "agreements")
PayloadClientName == OptGet(OptGet(OptGet(data, "call"), "agreements"), "client_name")
PayloadPhone == OptGet(OptGet(data, "contact"), "phone")
PayloadEmail == OptGet(OptGet(OptGet(data, "contact"), "additionalFields"), "email")
PayloadCompany == OptGet(OptGet(OptGet(data, "contact"), "additionalFields"), "company")

NoFieldIdConfigured == \A name \in FieldIdNames : ~Truthy(env[name])
PipelineConfigured == Truthy(env["AMOCRM_PIPELINE_ID"])

\* the entries of out.custom_fields_values (none when the key is absent)
CustomEntries ==
    IF HasKey(out, "custom_fields_values")
    THEN {GetProp(out, "custom_fields_values").e[i][2] :
              i \in 1..Len(GetProp(out, "custom_fields_values").e)}
    ELSE {}

\* the value of an entry: entry.values[0].value
EntryValue(entry) == GetProp(GetProp(entry, "values").e[1][2], "value")

PhoneEntryValues ==
    {EntryValue(entry) : entry \in {c \in CustomEntries : GetProp(c, "field_code") = Str(<<"PHONE">>)}}

\* the mapping with field f taken out
Without(mapping, f) == SelectSeq(mapping, LAMBDA c : c.field # f)

AppliedMapping ==
    CASE entity = "contact" -> contactMapping
      [] entity = "lead" -> leadMapping(env)
      [] entity = "probe" -> probeMapping
      [] OTHER -> <<>>

\* C1: the object applyMapping returns holds no key whose value is null or
\* undefined, whatever the payload and the mapping; such a field is left out.
C1_NoNullOrUndefined ==
    \A i \in 1..Len(out.e) : ~IsNullish(out.e[i][2])

\* a lead built without a pipeline identifier and without a price: both
\* fields resolve to null and are left out while the name is emitted
C1_Witness ==
    /\ entity = "lead"
    /\ ~PipelineConfigured
    /\ Keys(out) = {"name"}

\* C2: when computing a field throws, applyMapping still returns an object,
\* that field is absent from it, and every other field has the key and the
\* value it has when the failing field is not in the mapping at all.
C2_FailureIsolation ==
    \A f \in warned :
        /\ out.t = "object"
        /\ f \notin Keys(out)
        /\ out = applyMapping(data, Without(AppliedMapping, f), env)

\* the contact name throws (client_name is a number) and the contact's
\* custom fields are still emitted
C2_Witness ==
    /\ entity = "contact"
    /\ warned = {"name"}
    /\ Keys(out) = {"custom_fields_values"}

NormalizedPhone(digits) ==
    IF digits[1] = "8" THEN <<"+", "7">> \o Tail(digits)
    ELSE IF digits[1] = "7" THEN <<"+">> \o digits
    ELSE <<"+", "7">> \o digits

\* C6: for a contact.phone that is a string containing digits, the PHONE
\* entry holds "+" and the digits normalised to the country code 7: a leading
\* 8 is replaced by 7, a leading 7 is kept.
C6_PhoneNormalized ==
    (entity = "contact" /\ PayloadPhone.t = "string" /\ Len(OnlyDigits(PayloadPhone.s)) > 0) =>
        PhoneEntryValues = {Str(NormalizedPhone(OnlyDigits(PayloadPhone.s)))}

YieldsStandardEntry ==
    /\ ~(Truthy(PayloadPhone) /\ PayloadPhone.t # "string")
    /\ \/ PayloadPhone.t = "string" /\ Len(OnlyDigits(PayloadPhone.s)) > 0
       \/ Truthy(PayloadEmail)

C8_NameTruncation ==
    (entity = "lead" /\ PayloadAgreements.t = "string" /\ Len(PayloadAgreements.s) > 0) =>
        /\ HasKey(out, "name")
        /\ Len(GetProp(out, "name").s) <= NameLimit
        /\ IF Len(PayloadAgreements.s) > NameLimit
           THEN /\ GetProp(out, "name") = Str(SubSeq(PayloadAgreements.s, 1, NameKeep) \o Ellipsis)
                /\ Len(GetProp(out, "name").s) = NameLimit
           ELSE GetProp(out, "name") = PayloadAgreements

\* a text well over the limit was cut to a name of exactly 250 characters
C8_Witness ==
    /\ entity = "lead"
    /\ PayloadAgreements.t = "string"
    /\ Len(PayloadAgreements.s) > NameLimit + 1
    /\ HasKey(out, "name")
    /\ Len(GetProp(out, "name").s) = NameLimit

\* the name the fallback order of the lead mapping prescribes
ExpectedLeadName ==
    IF Truthy(PayloadAgreements)
    THEN IF PayloadAgreements.t = "string" /\ Len(PayloadAgreements.s) > NameLimit
         THEN Str(SubSeq(PayloadAgreements.s, 1, NameKeep) \o Ellipsis)
         ELSE PayloadAgreements
    ELSE IF Truthy(PayloadClientName)
    THEN Str(LeadPrefix \o <<":", " ">> \o ToChars(PayloadClientName))
    ELSE IF Truthy(PayloadPhone)
    THEN Str(LeadPrefix \o <<":", " ">> \o ToChars(PayloadPhone))
    ELSE Str(LeadPrefix)

\* C9: the lead name is the (truncated) agreements text if present, else the
\* prefix with the client name, else the prefix with the phone, else the bare
\* literal; so the lead name is present for every payload.
C9_LeadNameFallback ==
    entity = "lead" =>
        /\ HasKey(out, "name")
        /\ GetProp(out, "name") = ExpectedLeadName


(***************************************************************************)
(* Properties of getValueByPath (checked under SpecPath)                   *)
(***************************************************************************)
\* one step of a resolver that descends through containers only: a key is
\* looked up in an object or an array, and anything else ends the walk
ContainerStep(current, key) ==
    IF current.t \in {"object", "array"} /\ GetProp(current, key).t # "undefined"
    THEN GetProp(current, key)
    ELSE Null

RECURSIVE ContainerWalk(_, _)
ContainerWalk(current, segs) ==
    IF Len(segs) = 0 THEN current
    ELSE ContainerWalk(ContainerStep(current, segs[1]), Tail(segs))

\* C10: getValueByPath returns null whenever a segment of the path is absent,
\* undefined, or reached through a value that is not a container (a string,
\* a number, a boolean, null), and returns the stored value when the whole
\* path exists.
C10_PathResolution ==
    entity = "getValueByPath" => out = ContainerWalk(data, SplitDots(path))

(***************************************************************************)
(* The servers: unnamed/part_000 (detailed) and unnamed/part_001 (short)   *)
(***************************************************************************)
Variants == {"part_000", "part_001"}

\* An error thrown on the way to a request.  url and unset tell whether its
\* message contains 'Invalid URL' and whether it contains the words the
\* handlers look for in a message about a variable that is not set.
Failure(tag, url, unset) ==
    [ok |-> FALSE, tag |-> tag, url |-> url, unset |-> unset, body |-> Obj(<<>>)]

\* the body that is ready to be posted
Ready(body) == [ok |-> TRUE, tag |-> "", url |-> FALSE, unset |-> FALSE, body |-> body]

\* the characters /[^a-zA-Z0-9-]/g leaves in place
SubdomainChars ==
    {"a", "b", "c", "d", "e", "f", "g", "h", "i", "j", "k", "l", "m", "n", "o", "p",
     "q", "r", "s", "t", "u", "v", "w", "x", "y", "z",
     "A", "B", "C", "D", "E", "F", "G", "H", "I", "J", "K", "L", "M", "N", "O", "P",
     "Q", "R", "S", "T", "U", "V", "W", "X", "Y", "Z",
     "0", "1", "2", "3", "4", "5", "6", "7", "8", "9", "-"}

IsSubdomainChar(c) == c \in SubdomainChars

\* subdomain.trim().replace(/[^a-zA-Z0-9-]/g, '')
CleanSubdomain(cs) == SelectSeq(Trim(cs), IsSubdomainChar)

\* getAmoCRMBaseUrl(): the short server only tests that the variable is set;
\* the detailed one also rejects a blank value and a value without any
\* allowed character (a cleaned, non-empty subdomain always gives a valid URL)
getAmoCRMBaseUrl(v, e) ==
    IF v = "part_001"
    THEN IF ~Truthy(e["AMOCRM_SUBDOMAIN"]) THEN Failure("subdomain", FALSE, TRUE)
         ELSE Ready(Obj(<<>>))
    ELSE IF ~Truthy(e["AMOCRM_SUBDOMAIN"]) THEN Failure("subdomain", TRUE, TRUE)
    ELSE IF Len(Trim(e["AMOCRM_SUBDOMAIN"].s)) = 0 THEN Failure("subdomain", TRUE, TRUE)
    ELSE IF Len(CleanSubdomain(e["AMOCRM_SUBDOMAIN"].s)) = 0
    THEN Failure("subdomain-chars", TRUE, FALSE)
    ELSE Ready(Obj(<<>>))

getAmoCRMToken(e) ==
    IF ~Truthy(e["AMOCRM_ACCESS_TOKEN"]) THEN Failure("token", FALSE, TRUE)
    ELSE Ready(Obj(<<>>))

\* const baseUrl = getAmoCRMBaseUrl(); const token = getAmoCRMToken();
Credentials(v, e) ==
    IF ~getAmoCRMBaseUrl(v, e).ok THEN getAmoCRMBaseUrl(v, e) ELSE getAmoCRMToken(e)

\* the detailed server refuses contact fields without a name
ContactRequest(v, fields) ==
    IF v = "part_000" /\ ~Truthy(GetProp(fields, "name"))
    THEN Failure("contact-name", FALSE, FALSE)
    ELSE Ready(fields)

\* createOrUpdateContactInAmoCRM(data) up to its axios.post
ContactAttempt(v, d, e) ==
    IF ~Credentials(v, e).ok THEN Credentials(v, e)
    ELSE ContactRequest(v, applyMapping(d, contactMapping, e))

\* typeof contactId === 'string' ? parseInt(contactId) : contactId
ContactIdNum(cid) == IF cid.t = "string" THEN ParseInt(cid) ELSE cid

\* the detailed server: leadFields._embedded.contacts = [{ id, is_main: true }]
\* when the identifier is a number above zero
LinkMain(fields, num) ==
    IF num.t = "number" /\ num.n > 0
    THEN SetProp(fields, "_embedded",
                 Obj(<< <<"contacts", Arr(<< Obj(<< <<"id", num>>, <<"is_main", True>> >>) >>)>> >>))
    ELSE fields

LinkContact(fields, cid) ==
    IF Truthy(cid) THEN LinkMain(fields, ContactIdNum(cid)) ELSE fields

\* the short server: leadFields.contacts_id = [contactIdNum]
LinkContactsId(fields, cid) ==
    IF Truthy(cid) THEN SetProp(fields, "contacts_id", Arr(<<ContactIdNum(cid)>>)) ELSE fields

\* status_id, when there is one, is replaced by parseInt of it
WithStatus(fields, cid) ==
    IF ~Truthy(GetProp(fields, "status_id")) THEN Ready(LinkContact(fields, cid))
    ELSE IF ParseInt(GetProp(fields, "status_id")).t = "NaN"
    THEN Failure("status-format", FALSE, FALSE)
    ELSE Ready(LinkContact(SetProp(fields, "status_id", ParseInt(GetProp(fields, "status_id"))),
                           cid))

\* pipeline_id is replaced by parseInt of it
WithPipeline(fields, cid) ==
    IF ParseInt(GetProp(fields, "pipeline_id")).t = "NaN"
    THEN Failure("pipeline-format", FALSE, FALSE)
    ELSE WithStatus(SetProp(fields, "pipeline_id", ParseInt(GetProp(fields, "pipeline_id"))),
                    cid)

\* what createLeadInAmoCRM does with the mapped fields: the short server
\* posts them as they are; the detailed one requires name and pipeline_id
LeadRequest(v, fields, cid) ==
    IF v = "part_001" THEN Ready(LinkContactsId(fields, cid))
    ELSE IF ~Truthy(GetProp(fields, "name")) THEN Failure("lead-name", FALSE, FALSE)
    ELSE IF ~Truthy(GetProp(fields, "pipeline_id")) THEN Failure("pipeline", FALSE, TRUE)
    ELSE WithPipeline(fields, cid)

\* createLeadInAmoCRM(data, contactId) up to its axios.post; l is
\* process.env as it stood when mapping.js built leadMapping
LeadAttempt(v, d, e, l, cid) ==
    IF ~Credentials(v, e).ok THEN Credentials(v, e)
    ELSE LeadRequest(v, applyMapping(d, leadMapping(l), e), cid)

\* res.status(status) with a body that tells the reason
Reply(status, reason) ==
    [status |-> status, success |-> FALSE, reason |-> reason,
     leadId |-> Undef, contactId |-> Undef]

\* res.json({ success: true, leadId, contactId, ... })
Success(leadId, cid) ==
    [status |-> 200, success |-> TRUE, reason |-> "created",
     leadId |-> leadId, contactId |-> cid]

\* axios.post(`${baseUrl}/api/v4/<kind>`, [body], ...)
Request(kind, body) == [kind |-> kind, body |-> body]

\* where a synchronous stretch of a handler leaves the process
Step(p, issued, response, cid) ==
    [pc |-> p, sent |-> issued, res |-> response, contactId |-> cid,
     error |-> "", mapped |-> <<>>]

\* the step, with the contact error the handler logged on the way and the
\* mappings applied before those of the step
Noted(step, error, first) ==
    [step EXCEPT !.error = error, !.mapped = first \o @]

\* applyMapping(data, <which>Mapping) is called once the base URL and the
\* token are there
MappedBy(which, attempt) ==
    IF attempt.ok \/ attempt.tag \notin {"subdomain", "subdomain-chars", "token"}
    THEN <<which>>
    ELSE <<>>

\* the status of the answer to an error of the lead step: the /webhook
\* handler of the detailed server answers 400 to a message with 'Invalid URL'
ErrorStatus(v, rt, url) ==
    IF v = "part_000" /\ rt = "/webhook" /\ url THEN 400 ELSE 500

\* the lead step: post the lead, or answer with the error
LeadStage(v, rt, cid, issued, attempt) ==
    Noted(IF attempt.ok
          THEN Step("awaitLead", Append(issued, Request("leads", attempt.body)),
                    NoResponse, cid)
          ELSE Step("responded", issued,
                    Reply(ErrorStatus(v, rt, attempt.url), attempt.tag), cid),
          "", MappedBy("lead", attempt))

\* a variant in which no failure of the contact step ends the handler
ContactNeverFatal(v, rt, failure) == FALSE

\* the /webhook handler of the detailed server answers 400 itself when the
\* contact step fails with 'Invalid URL' or with a variable that is not set
ContactFatal(v, rt, failure) ==
    v = "part_000" /\ rt = "/webhook" /\ (failure.url \/ failure.unset)

\* the contact step: post the contact, answer 400, or go on without contact
ContactStage(v, rt, d, e, l, attempt) ==
    Noted(IF attempt.ok
          THEN Step("awaitContact", <<Request("contacts", attempt.body)>>, NoResponse, Null)
          ELSE IF ContactFatal(v, rt, attempt)
          THEN Step("responded", <<>>, Reply(400, attempt.tag), Null)
          ELSE LeadStage(v, rt, Null, <<>>, LeadAttempt(v, d, e, l, Null)),
          attempt.tag, MappedBy("contact", attempt))

\* Object.keys(d).length
KeyCount(d) ==
    CASE d.t \in {"object", "array"} -> Len(d.e)
      [] d.t = "string" -> Len(d.s)
      [] OTHER -> 0

\* !data.contact || !data.call
MissingFields(d) == ~Truthy(GetProp(d, "contact")) \/ ~Truthy(GetProp(d, "call"))

\* verifyWebhookSignature(payload, signature, secret): the header is the
\* HMAC-SHA256 of the raw body under the secret.  "valid" stands for that
\* digest, "forged" for any other hexadecimal text of its length.
verifyWebhookSignature(sig) == sig = "valid"

\* the checks of the /webhook handler, in order; NoResponse when all pass.
\* The signature header is only tested for presence.  A body that is not
\* JSON is answered 400 by the detailed server and 500 by the short one.
WebhookRejection(v, sig, body, d, e) ==
    IF sig = "absent" THEN Reply(401, "no-signature")
    ELSE IF ~Truthy(e["WEBHOOK_SECRET"]) THEN Reply(500, "no-secret")
    ELSE IF body = "empty" THEN Reply(400, "empty-body")
    ELSE IF body = "garbage" THEN Reply(IF v = "part_000" THEN 400 ELSE 500, "bad-json")
    ELSE IF ~Truthy(d) \/ KeyCount(d) = 0 THEN Reply(400, "no-data")
    ELSE IF MissingFields(d) THEN Reply(400, "missing-fields")
    ELSE NoResponse

\* the checks of the /test/amocrm/lead handler
TestRejection(d) ==
    IF ~Truthy(d) \/ d.t \notin {"object", "array"} THEN Reply(400, "no-data")
    ELSE IF MissingFields(d) THEN Reply(400, "missing-fields")
    ELSE NoResponse

\* a variant that posts the contact a second time when the first post fails
AfterContactRetry(v, rt, d, e, l, issued, o) ==
    Noted(IF o.ok THEN LeadStage(v, rt, o.id, issued, LeadAttempt(v, d, e, l, o.id))
          ELSE IF Len(issued) < 2
          THEN Step("awaitContact", Append(issued, issued[1]), NoResponse, Null)
          ELSE LeadStage(v, rt, Null, issued, LeadAttempt(v, d, e, l, Null)),
          IF o.ok THEN "" ELSE "contact-crm", <<"contact">>)

\* after the contact request: the contact id of the answer, or the error.
\* The detailed /webhook handler answers 400 to an 'Invalid URL' error; any
\* other failure is logged and the lead step runs without a contact.
AfterContact(v, rt, d, e, l, issued, o) ==
    Noted(IF o.ok THEN LeadStage(v, rt, o.id, issued, LeadAttempt(v, d, e, l, o.id))
          ELSE IF ContactFatal(v, rt, Failure("contact-url", o.url, FALSE))
          THEN Step("responded", issued, Reply(400, "contact-url"), Null)
          ELSE LeadStage(v, rt, Null, issued, LeadAttempt(v, d, e, l, Null)),
          IF o.ok THEN "" ELSE IF o.url THEN "contact-url" ELSE "contact-crm",
          <<"contact">>)

\* a variant whose handler swallows the error of the lead request and ends
\* without an answer
AfterLeadSilent(v, rt, cid, issued, o) ==
    IF o.ok THEN Step("responded", issued, Success(o.id, cid), cid)
    ELSE Step("responded", issued, NoResponse, cid)

\* after the lead request: the success answer, or the error answer
AfterLead(v, rt, cid, issued, o) ==
    IF o.ok THEN Step("responded", issued, Success(o.id, cid), cid)
    ELSE Step("responded", issued, Reply(ErrorStatus(v, rt, o.url), "crm"), cid)

(***************************************************************************)
(* Inputs of the servers                                                   *)
(***************************************************************************)
SomeText == Str(Text(ShortLen))
SomePhone == Str(<<"7", "9", "9", "9", "0", "0", "0", "1", "2", "3", "4">>)
LongList == Arr(Rep(Str(<<"a">>), NameLimit + 1))

\* what JSON.parse(payload) or express.json() hands to the handlers
ParsedBodies ==
    {Payload(SomeText, Str(<<" ", "B", "o", "b", " ">>), SomePhone, "full"),
     Payload(Undef, Undef, Undef, "none"),
     Payload(SomeText, Num(7), SomePhone, "none"),
     Payload(LongList, Num(7), Undef, "odd"),
     Null, Num(5), Str(<<"a", "b", "c">>), Arr(<<>>), Obj(<<>>),
     Obj(<< <<"contact", Obj(<< <<"phone", SomePhone>> >>)>> >>)}
    \cup MalformedPayloads

\* express.json() yields objects and arrays only
TestBodies == {d \in ParsedBodies : d.t \in {"object", "array"}}

\* the X-Webhook-Signature header: absent, the HMAC of the body, or any
\* other value
Signatures == {"absent", "valid", "forged"}

\* the body of a /webhook request: empty, not JSON, or JSON
BodyKinds == {"empty", "garbage", "json"}

CoreNames == {"AMOCRM_SUBDOMAIN", "AMOCRM_ACCESS_TOKEN", "WEBHOOK_SECRET", "AMOCRM_PIPELINE_ID"}

FullEnv == EnvOf(EnvNames, {})

\* <<process.env at process start, contents of the .env file>>
Configs ==
    {<<FullEnv, NoEnv>>,
     <<NoEnv, FullEnv>>,
     <<EnvOf(CoreNames, {}), NoEnv>>,
     <<EnvOf(EnvNames \ {"AMOCRM_PIPELINE_ID"}, {}), NoEnv>>,
     <<NoEnv, EnvOf(EnvNames \ {"AMOCRM_PIPELINE_ID"}, {})>>,
     <<EnvOf(EnvNames \ {"AMOCRM_SUBDOMAIN"}, {}), NoEnv>>,
     <<EnvOf(EnvNames \ {"AMOCRM_ACCESS_TOKEN"}, {}), NoEnv>>,
     <<EnvOf(EnvNames \ {"WEBHOOK_SECRET"}, {}), NoEnv>>,
     <<[FullEnv EXCEPT !["AMOCRM_PIPELINE_ID"] = Str(<<"m", "a", "i", "n">>)], NoEnv>>,
     <<[FullEnv EXCEPT !["AMOCRM_STATUS_ID"] = Str(<<"n", "e", "w">>)], NoEnv>>,
     <<[FullEnv EXCEPT !["AMOCRM_SUBDOMAIN"] = Str(<<"!", "!">>)], NoEnv>>,
     <<[FullEnv EXCEPT !["AMOCRM_SUBDOMAIN"] = Str(<<" ">>)], NoEnv>>}

\* response.data?._embedded?.contacts?.[0]?.id of an answer of amoCRM
ContactIds == {Num(55), Str(<<"5", "6">>), Str(<<"x">>), Num(0), Undef}

LeadIds == {Num(9), Undef}

\* how amoCRM answers a request: with an id, or with an error whose message
\* contains 'Invalid URL' (url) or does not
ContactOutcomes ==
    {[ok |-> TRUE, id |-> i, url |-> FALSE] : i \in ContactIds}
    \cup {[ok |-> FALSE, id |-> Undef, url |-> u] : u \in BOOLEAN}

LeadOutcomes ==
    {[ok |-> TRUE, id |-> i, url |-> FALSE] : i \in LeadIds}
    \cup {[ok |-> FALSE, id |-> Undef, url |-> u] : u \in BOOLEAN}

(***************************************************************************)
(* The server process                                                      *)
(***************************************************************************)
Init ==
    /\ variant \in Variants
    /\ \E c \in Configs : env = c[1] /\ envFile = c[2]
    /\ pc = "start"
    /\ loaded = NoEnv
    /\ route = ""
    /\ contactId = Null
    /\ sent = <<>>
    /\ res = NoResponse
    /\ contactError = ""
    /\ mapped = <<>>
    /\ signature = "absent"
    /\ responses = 0
    /\ settled = <<>>
    /\ data = Undef
    /\ entity = ""
    /\ out = Undef
    /\ warned = {}
    /\ path = <<>>

\* require('./mapping'): leadMapping is built from process.env as it stands
LoadMapping ==
    /\ pc = "start"
    /\ pc' = "mapping"
    /\ loaded' = env
    /\ UNCHANGED <<variant, envFile, route, contactId, sent, res, contactError, mapped,
                   signature, responses, settled>>
    /\ UNCHANGED engineVars

\* require('dotenv').config(): the names of the .env file that process.env
\* does not hold yet are added to it
LoadDotenv ==
    /\ pc = "mapping"
    /\ pc' = "listening"
    /\ env' = [name \in EnvNames |->
                  IF env[name].t = "undefined" THEN envFile[name] ELSE env[name]]
    /\ UNCHANGED <<variant, envFile, loaded, route, contactId, sent, res, contactError, mapped,
                   signature, responses, settled>>
    /\ UNCHANGED <<data, entity, out, warned, path>>

\* the process moves to where a synchronous stretch of a handler left it;
\* a stretch that called res.send or res.json has sent one more response
Take(s, before) ==
    /\ pc' = s.pc
    /\ sent' = s.sent
    /\ res' = s.res
    /\ contactId' = s.contactId
    /\ contactError' = s.error
    /\ mapped' = s.mapped
    /\ responses' = before + (IF s.res.status # 0 THEN 1 ELSE 0)

\* a handler from its entry to its first await or to its response
Handle(rt, sig, d, rejection) ==
    /\ route' = rt
    /\ signature' = sig
    /\ settled' = <<>>
    /\ data' = IF rejection.reason \in {"no-signature", "no-secret", "empty-body", "bad-json"}
               THEN Undef ELSE d
    /\ Take(IF rejection.status # 0
            THEN Step("responded", <<>>, rejection, Null)
            ELSE ContactStage(variant, rt, d, env, loaded, ContactAttempt(variant, d, env)),
            0)
    /\ UNCHANGED <<env, entity, out, warned, path, variant, envFile, loaded>>

\* app.post('/webhook', ...)
Webhook ==
    /\ pc \in {"listening", "responded"}
    /\ \E sig \in Signatures, body \in BodyKinds, d \in ParsedBodies :
          Handle("/webhook", sig, d, WebhookRejection(variant, sig, body, d, env))

\* app.post('/test/amocrm/lead', ...)
TestLead ==
    /\ pc \in {"listening", "responded"}
    /\ \E d \in TestBodies : Handle("/test/amocrm/lead", "absent", d, TestRejection(d))

\* the await of the contact request ends; the handler runs on to the lead
\* request or to its response
ContactReply ==
    /\ pc = "awaitContact"
    /\ \E o \in ContactOutcomes :
          /\ Take(AfterContact(variant, route, data, env, loaded, sent, o), responses)
          /\ settled' = Append(settled, o.ok)
    /\ UNCHANGED <<data, env, entity, out, warned, path, variant, envFile, loaded, route,
                   signature>>

\* the await of the lead request ends; the handler responds
LeadReply ==
    /\ pc = "awaitLead"
    /\ \E o \in LeadOutcomes :
          /\ Take(Noted(AfterLead(variant, route, contactId, sent, o), contactError, mapped),
                  responses)
          /\ settled' = Append(settled, o.ok)
    /\ UNCHANGED <<data, env, entity, out, warned, path, variant, envFile, loaded, route,
                   signature>>

Next == LoadMapping \/ LoadDotenv \/ Webhook \/ TestLead \/ ContactReply \/ LeadReply

Spec == Init /\ [][Next]_vars

\* an awaited axios.post settles and the event loop resumes the handler: the
\* handler leaves its await (the steps of ContactReply and of LeadReply)
Settle == pc \in {"awaitContact", "awaitLead"} /\ pc' \in {"awaitLead", "responded"}

\* every awaited request to amoCRM is answered or fails, and the handler
\* that awaits it is then resumed
FairSpec == Spec /\ WF_pc(Settle)

(***************************************************************************)
(* Properties of the servers (checked under Spec)                          *)
(***************************************************************************)
\* the server runs and no pipeline identifier is configured, neither in the
\* environment nor in the .env file
PipelineUnset ==
    /\ pc \in {"listening", "awaitContact", "awaitLead", "responded"}
    /\ ~Truthy(env["AMOCRM_PIPELINE_ID"])

LeadRequests == {i \in 1..Len(sent) : sent[i].kind = "leads"}

\* C4: when the pipeline identifier is not configured, handling an event
\* never submits a lead-create request to amoCRM, and the caller is never
\* told that the lead was created.
C4_NoLeadWithoutPipeline ==
    PipelineUnset => (LeadRequests = {} /\ ~res.success)

\* C5: when the pipeline identifier is not configured, no request at all
\* (neither the contact request nor the lead request) has been issued to
\* amoCRM by the time the configuration error is reported to the caller.
C5_NoRequestBeforeConfigError ==
    (PipelineUnset /\ res.reason = "pipeline") => sent = <<>>

(***************************************************************************)
(* Further properties of applyMapping (checked under SpecMapping)          *)
(***************************************************************************)
PayloadCall == OptGet(data, "call")
PayloadCallAgreements == OptGet(PayloadCall, "agreements")
PayloadContact == OptGet(data, "contact")

\* the payload value a lead custom field is taken from
LeadSource(name) ==
    CASE name = "AMOCRM_AGREEMENTS_FIELD_ID" -> OptGet(PayloadCallAgreements, "agreements")
      [] name = "AMOCRM_CLIENT_FACTS_FIELD_ID" -> OptGet(PayloadCallAgreements, "client_facts")
      [] name = "AMOCRM_SMS_TEXT_FIELD_ID" -> OptGet(PayloadCallAgreements, "smsText")
      [] name = "AMOCRM_CALL_DURATION_FIELD_ID" -> OptGet(PayloadCall, "duration")
      [] name = "AMOCRM_CALL_STARTED_FIELD_ID" -> OptGet(PayloadCall, "startedAt")
      [] name = "AMOCRM_CALL_RECORD_URL_FIELD_ID" -> OptGet(PayloadCall, "recordUrl")
      [] name = "AMOCRM_CALL_HISTORY_FIELD_ID" -> OptGet(PayloadCallAgreements, "historycall")
      [] name = "AMOCRM_AGREEMENTS_TIME_FIELD_ID" ->
           OptGet(PayloadCallAgreements, "agreements_time")
      [] name = "AMOCRM_REGION_FIELD_ID" ->
           OptGet(OptGet(PayloadContact, "dadataPhoneInfo"), "region")
      [] name = "AMOCRM_COMPANY_FIELD_ID" ->
           OptGet(OptGet(PayloadContact, "additionalFields"), "company")

\* the value the entry of a lead custom field carries
LeadEntryValue(name) ==
    CASE name = "AMOCRM_CALL_DURATION_FIELD_ID" -> DurationText(LeadSource(name))
      [] name = "AMOCRM_CALL_STARTED_FIELD_ID" -> EpochSeconds(LeadSource(name))
      [] OTHER -> LeadSource(name)

\* both the identifier and the payload value of the field are present
Qualifies(name) == Truthy(env[name]) /\ Truthy(LeadSource(name))

QualifyingLeadFields == SelectSeq(LeadFieldOrder, Qualifies)

PayloadPrice == OptGet(PayloadCallAgreements, "price")

\* the characters of a decimal integer, optionally signed
IsIntegerText(cs) ==
    /\ Len(cs) > 0
    /\ IF cs[1] \in {"-", "+"}
       THEN Len(cs) > 1 /\ \A i \in 2..Len(cs) : IsDigit(cs[i])
       ELSE \A i \in 1..Len(cs) : IsDigit(cs[i])

\* the price is a number, or a text that spells an integer
IsNumeric(v) ==
    \/ v.t = "number"
    \/ v.t = "string" /\ IsIntegerText(Trim(v.s))

\* C12 as stated: the lead output has a price key exactly when
\* call.agreements.price is numeric; a non-numeric or absent price yields no
\* price key.
C12_Original ==
    entity = "lead" => (HasKey(out, "price") <=> IsNumeric(PayloadPrice))

\* C12 as amended: the lead output has a price key exactly when the price is
\* truthy and its text, after leading whitespace, starts with an optionally
\* signed run of digits; the price is then that leading integer, whatever
\* follows it ("12rub" gives 12, "0" gives 0).  The number 0, an empty,
\* absent or null price and a text without a leading integer give no price
\* key; the key never holds null or NaN.
C12_PriceIsLeadingInteger ==
    entity = "lead" =>
        /\ HasKey(out, "price") <=> (Truthy(PayloadPrice) /\ ParseInt(PayloadPrice).t = "number")
        /\ HasKey(out, "price") =>
              /\ GetProp(out, "price").t = "number"
              /\ GetProp(out, "price") = ParseInt(PayloadPrice)
        /\ PayloadPrice = Str(<<"1", "2", "r", "u", "b">>) => GetProp(out, "price") = Num(12)
        /\ PayloadPrice = Str(<<"1", "5", "0", "0">>) => GetProp(out, "price") = Num(1500)
        /\ PayloadPrice = Str(<<" ", "4", "2">>) => GetProp(out, "price") = Num(42)
        /\ PayloadPrice = Str(<<"-", "5">>) => GetProp(out, "price") = Num(0 - 5)
        /\ PayloadPrice = Str(<<"0">>) => GetProp(out, "price") = Num(0)
        /\ PayloadPrice \in {Num(0), Str(<<"a", "b", "c">>), Str(<<"$", "9">>), True}
              => ~HasKey(out, "price")

\* a price that is a number followed by a unit is emitted as the number
C12_Witness ==
    /\ entity = "lead"
    /\ PayloadPrice = Str(<<"1", "2", "r", "u", "b">>)
    /\ GetProp(out, "price") = Num(12)

\* the name the rule of the contact mapping prescribes
ExpectedContactName ==
    IF Truthy(PayloadClientName) THEN Str(Trim(ToChars(PayloadClientName)))
    ELSE IF Truthy(PayloadPhone) THEN Str(ContactPrefix \o ToChars(PayloadPhone))
    ELSE Str(UnnamedContact)

\* C13: the contact name is call.agreements.client_name trimmed of
\* surrounding whitespace when that value is present; otherwise "Contact "
\* followed by contact.phone when the phone is present; otherwise the literal
\* "Unnamed contact".
C13_ContactNameRule ==
    entity = "contact" =>
        /\ HasKey(out, "name")
        /\ GetProp(out, "name") = ExpectedContactName

\* an empty value: the empty string or the empty list
IsEmptyValue(v) ==
    \/ v.t = "string" /\ Len(v.s) = 0
    \/ v.t = "array" /\ Len(v.e) = 0

\* C14: no key of the contact or lead output holds an empty value (an empty
\* string or an empty list): name is never the empty string and
\* custom_fields_values is never an empty list.
C14_NoEmptyValues ==
    entity \in {"contact", "lead"} =>
        \A i \in 1..Len(out.e) : ~IsEmptyValue(out.e[i][2])

PayloadCity == OptGet(OptGet(PayloadContact, "additionalFields"), "city")

\* the entries of out.custom_fields_values that carry value v under the
\* standard field code, or under the configured field identifier
EntriesByCode(code, v) ==
    {c \in CustomEntries : GetProp(c, "field_code") = Str(<<code>>) /\ EntryValue(c) = v}

EntriesById(name, v) ==
    {c \in CustomEntries : GetProp(c, "field_id") = ParseInt(env[name]) /\ EntryValue(c) = v}

\* C15: within the contact's custom_fields_values an entry is emitted
\* depending only on its own source and its own identifier: the EMAIL entry
\* whenever contact.additionalFields.email is present, the company and city
\* entries whenever their identifier and their value are present, whatever
\* the other sources are (contact.phone absent, or a number, included).
C15_EntriesIndependent ==
    entity = "contact" =>
        /\ (EntriesByCode("EMAIL", PayloadEmail) # {}) <=> Truthy(PayloadEmail)
        /\ (EntriesById("AMOCRM_CONTACT_COMPANY_FIELD_ID", PayloadCompany) # {})
              <=> (Truthy(env["AMOCRM_CONTACT_COMPANY_FIELD_ID"]) /\ Truthy(PayloadCompany))
        /\ (EntriesById("AMOCRM_CONTACT_CITY_FIELD_ID", PayloadCity) # {})
              <=> (Truthy(env["AMOCRM_CONTACT_CITY_FIELD_ID"]) /\ Truthy(PayloadCity))

\* the positions in sent of the requests to /api/v4/contacts
ContactRequests == {i \in DOMAIN sent : sent[i].kind = "contacts"}

\* C16: for one inbound event the server issues at most one contact request
\* and at most one lead request, the contact request first; while the contact
\* request is awaited no lead request has been issued, while the lead request
\* is awaited it is the last request issued, and a request whose reply has
\* arrived is never issued again.
C16_CallSequencing ==
    /\ Cardinality(ContactRequests) <= 1
    /\ Cardinality(LeadRequests) <= 1
    /\ Len(sent) = Cardinality(ContactRequests) + Cardinality(LeadRequests)
    /\ \A c \in ContactRequests, l \in LeadRequests : c < l
    /\ pc = "awaitContact" => ContactRequests = {Len(sent)} /\ LeadRequests = {}
    /\ pc = "awaitLead" => LeadRequests = {Len(sent)}
    /\ pc \in {"start", "mapping", "listening"} => sent = <<>>

\* an event answered after a contact request and then a lead request
C16_Witness ==
    /\ pc = "responded"
    /\ res.success
    /\ Len(sent) = 2
    /\ sent[1].kind = "contacts"
    /\ sent[2].kind = "leads"

\* the contact step of the current event has failed
ContactFailed == pc \in {"awaitLead", "responded"} /\ contactError # ""

\* the errors of the contact step whose message holds 'Invalid URL' or
\* 'не установлен' (rendered "is not set"), on the route that tests for them
FatalContactError ==
    /\ variant = "part_000"
    /\ route = "/webhook"
    /\ contactError \in {"subdomain", "subdomain-chars", "token", "contact-url"}

\* the event went the way createLeadInAmoCRM(data, null) alone decides: its
\* request is the last one issued, or its error is the answer
LeadAlone(attempt) ==
    IF attempt.ok
    THEN /\ LeadRequests = {Len(sent)}
         /\ sent[Len(sent)] = Request("leads", attempt.body)
         /\ pc = "responded" => res.reason \in {"created", "crm"}
         /\ res.success => res.contactId = Null
    ELSE /\ pc = "responded"
         /\ LeadRequests = {}
         /\ res.reason = attempt.tag
         /\ res.status = ErrorStatus(variant, route, attempt.url)

\* C17 as stated: whenever the contact step fails, for any reason, the handler
\* goes on to the lead step with a null contact reference and the outcome of
\* the event is that of the lead step alone.
C17_Original ==
    ContactFailed =>
        /\ contactId = Null
        /\ LeadAlone(LeadAttempt(variant, data, env, loaded, Null))

\* C17: when the contact step fails the contact reference stays null; the
\* /webhook handler of the detailed server answers 400 with the error of the
\* contact step, without a lead request, when that error is an 'Invalid URL'
\* or a variable that is not set; after every other failure, and on every
\* other route and server, the handler goes on to the lead step with a null
\* contact reference and the outcome is that of the lead step alone.
C17_ContactFailureNonFatal ==
    ContactFailed =>
        /\ contactId = Null
        /\ IF FatalContactError
           THEN /\ pc = "responded"
                /\ res.status = 400
                /\ res.reason = contactError
                /\ LeadRequests = {}
           ELSE LeadAlone(LeadAttempt(variant, data, env, loaded, Null))

\* the contact request was refused by amoCRM and the lead request is out
C17_Witness ==
    /\ pc = "awaitLead"
    /\ contactError = "contact-crm"
    /\ contactId = Null
    /\ Len(sent) = 2

\* the contact step gave an identifier a lead can refer to
ContactIdObtained ==
    /\ Truthy(contactId)
    /\ ContactIdNum(contactId).t = "number"
    /\ ContactIdNum(contactId).n > 0

\* _embedded of a lead that refers to the contact as its main contact
MainContact(num) ==
    Obj(<< <<"contacts", Arr(<< Obj(<< <<"id", num>>, <<"is_main", True>> >>) >>)>> >>)

\* C18: a submitted lead body carries a contact relation if and only if the
\* contact step of the same event gave a contact identifier; the relation is
\* _embedded.contacts with exactly one element, whose id is the identifier
\* the contact step returned and whose is_main is true; with no identifier
\* the lead body carries no contact relation of any form.
C18_ContactLinkage ==
    \A i \in LeadRequests :
        IF ContactIdObtained
        THEN /\ GetProp(sent[i].body, "_embedded") = MainContact(ContactIdNum(contactId))
             /\ ~HasKey(sent[i].body, "contacts_id")
        ELSE /\ ~HasKey(sent[i].body, "_embedded")
             /\ ~HasKey(sent[i].body, "contacts_id")

\* the lead step worked with the configuration as it stands: its request is
\* the one that configuration gives, and it reports a missing pipeline only
\* when that configuration has none
LeadStepUses(attempt) ==
    /\ \A i \in LeadRequests : attempt.ok /\ sent[i].body = attempt.body
    /\ (pc = "responded" /\ res.reason = "pipeline") => attempt.tag = "pipeline"

\* C19: once startup loading, the environment-file load included, is over,
\* every identifier the mapping of an event uses is the one the environment
\* holds at that moment: the static pipeline_id and status_id of leadMapping
\* as much as the custom-field identifiers, so that every lead request and
\* every pipeline error is the one the loaded configuration gives.
C19_ConfigurationReadAtStartup ==
    pc \notin {"start", "mapping"} =>
        /\ leadMapping(loaded) = leadMapping(env)
        /\ LeadStepUses(LeadAttempt(variant, data, env, env, contactId))

\* the body of the current request is not an object with both top-level
\* keys: it is empty or not JSON, or the parsed value lacks contact or call
UnusableBody ==
    /\ pc \in {"awaitContact", "awaitLead", "responded"}
    /\ \/ res.reason \in {"empty-body", "bad-json"}
       \/ /\ data # Undef
          /\ ~(data.t = "object" /\ HasKey(data, "contact") /\ HasKey(data, "call"))

\* C20: a request whose body is not an object with both top-level keys
\* contact and call is answered with a client-error status before the
\* mapping engine runs: applyMapping has not been called for it and no
\* request to amoCRM has been issued, on /webhook and on /test/amocrm/lead.
C20_CallerValidation ==
    UnusableBody =>
        /\ pc = "responded"
        /\ res.status \in 400..499
        /\ ~res.success
        /\ mapped = <<>>
        /\ sent = <<>>

\* C21: a /webhook request leads to a request to amoCRM, or to a call of
\* applyMapping, only if its X-Webhook-Signature header is the HMAC-SHA256 of
\* the raw body under WEBHOOK_SECRET; a request whose signature does not
\* verify is rejected without any mapping and without any outbound call.
C21_SignatureGate ==
    (route = "/webhook" /\ pc \in {"awaitContact", "awaitLead", "responded"}) =>
        /\ (sent # <<>> \/ mapped # <<>>) => verifyWebhookSignature(signature)
        /\ ~verifyWebhookSignature(signature) =>
              /\ pc = "responded"
              /\ ~res.success
              /\ sent = <<>>
              /\ mapped = <<>>

(***************************************************************************)
(* Properties of the /webhook handler in time (checked under FairSpec)     *)
(***************************************************************************)
\* a /webhook request is being handled or has been handled
InWebhook == route = "/webhook" /\ pc \in {"awaitContact", "awaitLead", "responded"}

\* no response while the handler awaits, one response once it has ended
OneResponse ==
    /\ responses <= 1
    /\ pc = "responded" <=> responses = 1
    /\ responses = 1 <=> res.status # 0

\* success = true is answered only once the lead request, the last request
\* issued, has succeeded
SuccessAfterLead ==
    res.success =>
        /\ pc = "responded"
        /\ LeadRequests = {Len(sent)}
        /\ Len(settled) = Len(sent)
        /\ settled[Len(settled)]

=========================================================================
